---------------------------- MODULE Spec2Model ----------------------------
(***************************************************************************)
(* Model of the cache core of angular-rxjs-ops:                            *)
(*   CacheService       src/src/app/services/cache.service.ts              *)
(*   cachingInterceptor src/src/app/interceptors/caching.interceptor.ts    *)
(*                                                                         *)
(* The Map<string, CacheEntry> is a sequence of entries in insertion       *)
(* order (the iteration order of a JavaScript Map).  Date.now() is the     *)
(* variable now, which only the Tick action advances.  Time is counted in  *)
(* abstract ticks; defaultTTL and maxSize are scaled down from the         *)
(* source's 600000 ms and 100 entries so that expiry and eviction are      *)
(* reached by exhaustive search.  Every formula below is written in terms  *)
(* of the names maxSize and defaultTTL, never of their scaled values.      *)
(***************************************************************************)
EXTENDS Integers, Sequences, FiniteSets, TLC

VARIABLES
    cache,      \* CacheService.cache: entries in Map iteration order
    hits,       \* CacheService.stats.hits
    misses,     \* CacheService.stats.misses
    now,        \* Date.now()
    pending,    \* continuation calls (next(req)) whose stream is still open
    last,       \* history: the operation that produced this state, its result
    getCalls,   \* history: get calls since the last clear / construction
    written,    \* history: per key, the last set not yet undone
    served,     \* history: per key, the last response the interceptor stored
    sweeping,   \* CacheService.cleanupInterval is set and not cleared
    us          \* the stream a UserService method returned, as subscribed

vars == <<cache, hits, misses, now, pending, last, getCalls,
          written, served, sweeping, us>>

---------------------------------------------------------------------------
(* Bounds of the model *)

\* cache.service.ts:41 has maxSize = 100; scaled.
maxSize == 2
\* cache.service.ts:40 has defaultTTL = 10 * 60 * 1000 ms; scaled to ticks.
defaultTTL == 1
\* last clock value explored
MaxTime == 2
\* cap on the hits + misses counters
MaxGets == 2
\* cap on the number of open continuation streams
MaxPending == 2

\* Largest value of each counter getStats is evaluated on
MaxCount == 3

\* string keys; the empty string is a legal Map key
Keys == {"", "/a", "/b"}
\* URLs a request can carry (req.urlWithParams)
Urls == {"/a"}
\* the value returned for "not found"
NULL == "null"
\* bodies of completed HttpResponse events
Responses == {"r1", "r2"}
\* non-response HttpEvents (HttpSentEvent, progress events)
ProgressEvents == {"sent"}
\* errors a continuation can fail with
Errors == {"e1"}
Methods == {"GET", "POST"}
\* The set calls explored, <<key, value, options>>.  The options argument
\* is <<>> for "no ttl supplied" and <<t>> for {ttl: t}; the value "" is a
\* falsy JavaScript value.  Every key is set with no options, one key with
\* a second value and a per-call ttl, and one key with the per-call ttl 0.
SetInputs ==
    (Keys \X {"r1"} \X {<<>>}) \cup {<<"/a", "", <<2>>>>, <<"/b", "r1", <<0>>>>}
\* The direct set calls explored next to the interceptor: an overwrite of the
\* request's key with a falsy value, and another key to fill the store
HttpSetInputs == {<<"/a", "", <<>>>>, <<"/b", "r1", <<>>>>}

---------------------------------------------------------------------------
(* The Map<string, CacheEntry<any>> *)

RECURSIVE IndexOf(_, _, _)
IndexOf(c, k, i) ==
    IF i > Len(c) THEN 0
    ELSE IF c[i].key = k THEN i ELSE IndexOf(c, k, i + 1)

MapHas(c, k) == IndexOf(c, k, 1) # 0

MapGet(c, k) == c[IndexOf(c, k, 1)]

MapDelete(c, k) == SelectSeq(c, LAMBDA e : e.key # k)

MapSetKeepOld(c, k, e) == IF MapHas(c, k) THEN c ELSE Append(c, e)

\* Map.set keeps the position of a key that is already present
MapSet(c, k, e) ==
    IF MapHas(c, k)
    THEN [c EXCEPT ![IndexOf(c, k, 1)] = e]
    ELSE Append(c, e)

Entry(k, v, exp, at) == [key |-> k, value |-> v, expiry |-> exp, createdAt |-> at]

---------------------------------------------------------------------------
(* CacheService *)

isExpired(entry, t) == t > entry.expiry

\* JavaScript truthiness of a string-or-null
Truthy(v) == v # NULL /\ v # ""

\* The scan of evictOldestEntry: <<>> is oldestKey = null, <<k>> a key.
\* The timestamps are finite, so any number above every clock value
\* compares as Infinity does.
Infinity == MaxTime + 1

RECURSIVE OldestScan(_, _, _, _)
OldestScan(c, i, oldestKey, oldestTime) ==
    IF i > Len(c) THEN oldestKey
    ELSE IF c[i].createdAt < oldestTime
         THEN OldestScan(c, i + 1, <<c[i].key>>, c[i].createdAt)
         ELSE OldestScan(c, i + 1, oldestKey, oldestTime)

OldestKey(c) == OldestScan(c, 1, <<>>, Infinity)

\* if (oldestKey) is a truthiness test: null and "" both skip the delete
evictOldestEntry(c) ==
    LET oldestKey == OldestKey(c)
    IN  IF oldestKey # <<>> /\ Truthy(oldestKey[1])
        THEN MapDelete(c, oldestKey[1])
        ELSE c

\* options?.ttl || this.defaultTTL : 0 is falsy
TtlOf(opts) == IF opts # <<>> /\ opts[1] # 0 THEN opts[1] ELSE defaultTTL

set(c, t, k, v, opts) ==
    LET entry == Entry(k, v, t + TtlOf(opts), t)
        c1 == IF Len(c) >= maxSize THEN evictOldestEntry(c) ELSE c
    IN  MapSet(c1, k, entry)

\* get: result, cache and counters after the call
getKeepExpired(c, h, m, t, k) ==
    IF ~MapHas(c, k)
    THEN [ret |-> NULL, cache |-> c, hits |-> h, misses |-> m + 1]
    ELSE IF isExpired(MapGet(c, k), t)
         THEN [ret |-> NULL, cache |-> c, hits |-> h, misses |-> m + 1]
         ELSE [ret |-> MapGet(c, k).value, cache |-> c, hits |-> h + 1, misses |-> m]

getNoMissCount(c, h, m, t, k) ==
    IF ~MapHas(c, k)
    THEN [ret |-> NULL, cache |-> c, hits |-> h, misses |-> m + 1]
    ELSE IF isExpired(MapGet(c, k), t)
         THEN [ret |-> NULL, cache |-> MapDelete(c, k), hits |-> h, misses |-> m]
         ELSE [ret |-> MapGet(c, k).value, cache |-> c, hits |-> h + 1, misses |-> m]

getNoMissOnAbsent(c, h, m, t, k) ==
    IF ~MapHas(c, k)
    THEN [ret |-> NULL, cache |-> c, hits |-> h, misses |-> m]
    ELSE IF isExpired(MapGet(c, k), t)
         THEN [ret |-> NULL, cache |-> MapDelete(c, k), hits |-> h, misses |-> m + 1]
         ELSE [ret |-> MapGet(c, k).value, cache |-> c, hits |-> h + 1, misses |-> m]

get(c, h, m, t, k) ==
    IF ~MapHas(c, k)
    THEN [ret |-> NULL, cache |-> c, hits |-> h, misses |-> m + 1]
    ELSE IF isExpired(MapGet(c, k), t)
         THEN [ret |-> NULL, cache |-> MapDelete(c, k), hits |-> h, misses |-> m + 1]
         ELSE [ret |-> MapGet(c, k).value, cache |-> c, hits |-> h + 1, misses |-> m]

deleteAnswersTrue(c, k) == [ret |-> TRUE, cache |-> MapDelete(c, k)]

\* delete returns what Map.delete returns: whether the key was present
delete(c, k) == [ret |-> MapHas(c, k), cache |-> MapDelete(c, k)]

hasKeepExpired(c, t, k) ==
    IF ~MapHas(c, k) \/ isExpired(MapGet(c, k), t)
    THEN [ret |-> FALSE, cache |-> c]
    ELSE [ret |-> TRUE, cache |-> c]

has(c, t, k) ==
    IF ~MapHas(c, k) \/ isExpired(MapGet(c, k), t)
    THEN [ret |-> FALSE, cache |-> IF MapHas(c, k) THEN MapDelete(c, k) ELSE c]
    ELSE [ret |-> TRUE, cache |-> c]

cleanupStrict(c, t) ==
    LET kept == SelectSeq(c, LAMBDA e : ~(e.expiry < t))
    IN  [ret |-> Len(c) - Len(kept), cache |-> kept]

\* cleanup removes entries with expiry <= now; the count is its result
cleanup(c, t) ==
    LET kept == SelectSeq(c, LAMBDA e : ~(e.expiry <= t))
    IN  [ret |-> Len(c) - Len(kept), cache |-> kept]

clearKeepStats(c, h, m) == [cache |-> <<>>, hits |-> h, misses |-> m]

\* clear empties the Map and zeroes both counters
clear(c, h, m) == [cache |-> <<>>, hits |-> 0, misses |-> 0]

\* Math.round(x) for the non-negative fraction x = num / den: the nearest
\* integer, a half rounding up
Round(num, den) == (2 * num + den) \div (2 * den)

getStatsTruncated(c, h, m) ==
    LET total == h + m
    IN  [hits |-> h, misses |-> m, size |-> Len(c),
         hitRate |-> IF total > 0 THEN (h * 10000) \div total ELSE 0]

\* getStats.  hitRate is carried in hundredths of a percent, the integer
\* Math.round(hitRate * 100) that the code then divides by 100.  The code
\* computes in floating point; it agrees with this exact arithmetic except
\* on exact halves, the first of which needs 32 get calls.
getStats(c, h, m) ==
    LET total == h + m
    IN  [hits |-> h, misses |-> m, size |-> Len(c),
         hitRate |-> IF total > 0 THEN Round(h * 10000, total) ELSE 0]

\* generateKey.  A params object is the sequence of its <<name, value>>
\* pairs in the order Object.keys lists them, which for names like these is
\* the order the caller wrote them in; no name occurs twice.  A value is a
\* pair <<type, text>>.
MaxParams == 3

\* The parameter names, in the order Array.prototype.sort puts them
\* (by UTF-16 code units)
SortedNames == <<"a", "ab", "b">>

ParamNames == {SortedNames[i] : i \in 1..Len(SortedNames)}

ParamValues == {<<"number", "1">>, <<"string", "1">>}

KeyBases == {"/a", "/b"}

Injective(f) == \A i, j \in DOMAIN f : f[i] = f[j] => i = j

ParamObjects ==
    UNION {{p \in [1..n -> ParamNames \X ParamValues] :
               Injective([i \in 1..n |-> p[i][1]])} : n \in 0..MaxParams}

ObjectKeys(params) == [i \in 1..Len(params) |-> params[i][1]]

\* params[k]
Lookup(params, k) ==
    params[CHOOSE i \in 1..Len(params) : params[i][1] = k][2]

Rank(name) == CHOOSE i \in 1..Len(SortedNames) : SortedNames[i] = name

RECURSIVE Insert(_, _)
Insert(name, s) ==
    IF s = <<>> THEN <<name>>
    ELSE IF Rank(name) <= Rank(Head(s)) THEN <<name>> \o s
    ELSE <<Head(s)>> \o Insert(name, Tail(s))

Unsorted(names) == names

\* Array.prototype.sort() with the default comparison
RECURSIVE Sort(_)
Sort(names) ==
    IF names = <<>> THEN <<>> ELSE Insert(Head(names), Sort(Tail(names)))

\* JSON.stringify of a number or of a string without characters to escape
JSONstringify(v) == IF v[1] = "string" THEN "\"" \o v[2] \o "\"" ELSE v[2]

\* Array.prototype.join
RECURSIVE Join(_, _)
Join(parts, sep) ==
    IF parts = <<>> THEN ""
    ELSE IF Len(parts) = 1 THEN parts[1]
    ELSE parts[1] \o sep \o Join(Tail(parts), sep)

\* An absent params argument and an object without keys are both <<>>
generateKey(url, params) ==
    IF Len(ObjectKeys(params)) > 0
    THEN LET names == Sort(ObjectKeys(params))
             queryString ==
                 Join([i \in 1..Len(names) |->
                          names[i] \o "=" \o
                              JSONstringify(Lookup(params, names[i]))], "&")
         IN  url \o "?" \o queryString
    ELSE url

ngOnDestroyResetsStats(c, h, m) ==
    [cache |-> <<>>, hits |-> 0, misses |-> 0]

\* ngOnDestroy calls this.cache.clear() and leaves this.stats alone
ngOnDestroy(c, h, m) == [cache |-> <<>>, hits |-> h, misses |-> m]

---------------------------------------------------------------------------
(* UserService *)

defaultRetryAttempts == 3

\* Largest retryAttempts a caller passes in its config
MaxRetry == 4

UserOps == {"getUsers", "postUser", "getUserById"}

\* The config argument: absent, or with a retryAttempts of 0 or more
RetryConfigs == {<<>>} \cup {<<n>> : n \in 0..MaxRetry}

\* config?.retryAttempts ?? this.defaultRetryAttempts
retryAttempts(config) ==
    IF config = <<>> THEN defaultRetryAttempts ELSE config[1]

\* What the backend may answer: the bodies b1 and b2, each an object with
\* every field of a user and a data field; an object without any of these
\* fields; no body
DataBodies == {"b1", "b2"}

Bodies == DataBodies \cup {"nodata", "nobody"}

\* response.data
dataOf(body) ==
    IF body = "b1" THEN "d1" ELSE IF body = "b2" THEN "d2" ELSE "undefined"

\* The HTTP method of the request each method sends
RequestMethod(op) == IF op = "postUser" THEN "POST" ELSE "GET"

HttpErrors == {"e500"}

THROWN == "TypeError"

EmptyArray == "[]"

\* response.data || []; reading data of a null body throws
transformUsersResponse(body) ==
    IF body = "nobody" THEN THROWN
    ELSE IF dataOf(body) = "undefined" THEN EmptyArray ELSE dataOf(body)

\* Reading user.id of a null or undefined user throws; a user with every
\* field keeps them all, an object without them gets the defaults
transformUserResponse(user) ==
    IF user \in {"nobody", "undefined"} THEN THROWN
    ELSE IF user = "nodata" THEN "defaults" ELSE user

mapResponseWholeBody(op, body) ==
    IF op = "getUsers" THEN transformUsersResponse(body)
    ELSE transformUserResponse(body)

\* The map operator of each method's pipe
mapResponse(op, body) ==
    IF op = "getUsers" THEN transformUsersResponse(body)
    ELSE IF op = "postUser" THEN transformUserResponse(body)
    ELSE IF body = "nobody" THEN THROWN
    ELSE transformUserResponse(dataOf(body))

\* The fallbackValue each method passes to handleError
Fallback(op) == IF op = "getUsers" THEN EmptyArray ELSE NULL

retryOneMore(count, soFar) ==
    IF soFar <= count THEN "resubscribe" ELSE "error"

\* retry({count, delay: 1000}) on an error of its source, soFar being the
\* resubscriptions it has made: it resubscribes while soFar < count and
\* otherwise passes the error on; a count of 0 or less retries nothing
retry(count, soFar) ==
    IF count > 0 /\ soFar < count THEN "resubscribe" ELSE "error"

\* handleError: of(fallbackValue), a value followed by completion
handleError(error, fallbackValue) ==
    << [kind |-> "next", val |-> fallbackValue],
       [kind |-> "complete", val |-> NULL] >>

\* The subscriber receives the notifications ns, the last of them
\* ending the stream
Deliver(u, ns) ==
    [u EXCEPT !.phase = "done",
              !.out = @ \o [i \in 1..Len(SelectSeq(ns, LAMBDA x : x.kind = "next"))
                               |-> SelectSeq(ns, LAMBDA x : x.kind = "next")[i].val],
              !.completed = \E i \in 1..Len(ns) : ns[i].kind = "complete",
              !.errored = \E i \in 1..Len(ns) : ns[i].kind = "error"]

\* An attempt ends in the error err, from the request or thrown in map:
\* retry waits and resubscribes, or lets catchError substitute the fallback
OnError(u, err) ==
    IF retry(u.count, u.tries - 1) = "resubscribe"
    THEN [u EXCEPT !.failed = @ + 1, !.phase = "delay"]
    ELSE Deliver([u EXCEPT !.failed = @ + 1],
                 handleError(err, Fallback(u.op)))

---------------------------------------------------------------------------
(* cachingInterceptor *)

Requests == Methods \X Urls

\* event instanceof HttpResponse
IsHttpResponse(ev) == ev \in Responses

\* The tap callback: a completed response is stored (its clone carries the
\* same body) under req.urlWithParams with no options; other events are not.
tapStoreAlways(c, t, url, ev) == set(c, t, url, ev, <<>>)

tapStoreNever(c, t, url, ev) == c

tapStoreEarly(c, t, url, ev) ==
    IF IsHttpResponse(ev)
    THEN set(c, IF t > 0 THEN t - 1 ELSE t, url, ev, <<>>)
    ELSE c

tapStore(c, t, url, ev) ==
    IF IsHttpResponse(ev) THEN set(c, t, url, ev, <<>>) ELSE c

\* tap is given a next callback only: an error reaches no callback
tapErrorStores(c, t, url, err) == set(c, t, url, err, <<>>)

tapError(c, t, url, err) == c

CacheableAll(method) == TRUE

\* Does the interceptor consult the cache for this method?
Cacheable(method) == method = "GET"

PendingTotalOf(p) == LET RECURSIVE Sum(_)
                         Sum(S) == IF S = {} THEN 0
                                   ELSE LET r == CHOOSE x \in S : TRUE
                                        IN  p[r] + Sum(S \ {r})
                     IN  Sum(Requests)

---------------------------------------------------------------------------
(* History variables *)

\* last: op is the operation, key/method its arguments, val and ok what it
\* returned (or delivered to the subscriber), src what the continuation
\* emitted, n the count cleanup returned, gets and called the numbers of
\* cacheService.get calls and of next(req) calls it made, live whether its
\* key had an unexpired entry when it started, gone how many entries it
\* removed from the Map, opts the options argument of a set call, stats the
\* value getStats emitted, params the object given to generateKey; for
\* clear, n is the number of get calls it forgot
NoStats == [hits |-> 0, misses |-> 0, size |-> 0, hitRate |-> 0]

\* No UserService stream is subscribed.  count is the retry count of the
\* stream, tries the requests it has sent, failed the attempts that ended in
\* an error, out the values the subscriber received, method the HTTP method
\* of its requests, body the body that answered the request last sent
NoStream == [op |-> "none", count |-> 0, tries |-> 0, failed |-> 0,
             phase |-> "idle", out |-> <<>>, errored |-> FALSE,
             completed |-> FALSE, method |-> "", body |-> "none"]

NoLast == [op |-> "init", key |-> "", method |-> "", val |-> NULL,
           src |-> NULL, ok |-> FALSE, n |-> 0, gets |-> 0, called |-> 0,
           live |-> FALSE, gone |-> 0, opts |-> <<>>, stats |-> NoStats,
           params |-> <<>>]

\* "expired iff current time > entry.expiry"
Live(c, t, k) == MapHas(c, k) /\ ~(t > MapGet(c, k).expiry)

\* number of keys of c that c2 no longer holds
Gone(c, c2) ==
    Cardinality({i \in 1..Len(c) :
                   ~\E j \in 1..Len(c2) : c2[j].key = c[i].key})

NoWrite == [on |-> FALSE, val |-> NULL, exp |-> 0]
NoServe == [on |-> FALSE, val |-> NULL, exp |-> 0, over |-> FALSE]

\* A write is tracked only while the TTL it asked for has not elapsed at
\* time t; the clock never goes back, so an elapsed one is never needed again
Unelapsed(h, none, t) ==
    [j \in Keys |-> IF h[j].on /\ t < h[j].exp THEN h[j] ELSE none]

\* The TTL a set call asks for, as the interface documents it
AskedTtl(opts) == IF opts = <<>> THEN defaultTTL ELSE opts[1]

\* written and served after a call set(k, v, opts) took the Map from c to c2;
\* a key that the call evicted is no longer tracked
WrittenAfterSet(c, c2, k, v, opts) ==
    Unelapsed([j \in Keys |->
        IF j = k THEN [on |-> TRUE, val |-> v, exp |-> now + AskedTtl(opts)]
        ELSE IF MapHas(c, j) /\ ~MapHas(c2, j) THEN NoWrite
        ELSE written[j]], NoWrite, now)

ServedAfterSet(c, c2, k, v, byHttp) ==
    Unelapsed([j \in Keys |->
        IF j = k
        THEN IF byHttp
             THEN [on |-> TRUE, val |-> v, exp |-> now + defaultTTL,
                   over |-> FALSE]
             ELSE [served[j] EXCEPT !.over = served[j].on]
        ELSE IF MapHas(c, j) /\ ~MapHas(c2, j) THEN NoServe
        ELSE served[j]], NoServe, now)

---------------------------------------------------------------------------
(* State machine *)

Init ==
    /\ cache = <<>>
    /\ hits = 0
    /\ misses = 0
    /\ now = 0
    /\ pending = [r \in Requests |-> 0]
    /\ last = NoLast
    /\ getCalls = 0
    /\ written = [k \in Keys |-> NoWrite]
    /\ served = [k \in Keys |-> NoServe]
    /\ sweeping = TRUE
    /\ us = NoStream

\* The service after some get calls, hits of them hits, on keys that have
\* since been deleted
InitStats ==
    /\ cache = <<>>
    /\ hits \in 0..MaxCount
    /\ misses \in 0..MaxCount
    /\ now = 0
    /\ pending = [r \in Requests |-> 0]
    /\ last = NoLast
    /\ getCalls = hits + misses
    /\ written = [k \in Keys |-> NoWrite]
    /\ served = [k \in Keys |-> NoServe]
    /\ sweeping = TRUE
    /\ us = NoStream

Get(k) ==
    /\ hits + misses < MaxGets
    /\ LET r == get(cache, hits, misses, now, k)
       IN  /\ cache' = r.cache
           /\ hits' = r.hits
           /\ misses' = r.misses
           /\ last' = [NoLast EXCEPT !.op = "get", !.key = k, !.val = r.ret,
                                     !.gets = 1, !.live = Live(cache, now, k),
                                     !.gone = Gone(cache, r.cache)]
    /\ getCalls' = getCalls + 1
    /\ UNCHANGED <<now, pending, written, served,
                   sweeping, us>>

Set(k, v, opts) ==
    /\ cache' = set(cache, now, k, v, opts)
    /\ last' = [NoLast EXCEPT !.op = "set", !.key = k, !.val = v, !.ok = TRUE,
                              !.opts = opts,
                              !.live = Live(cache, now, k),
                              !.gone = Gone(cache, cache')]
    /\ written' = WrittenAfterSet(cache, cache', k, v, opts)
    /\ served' = ServedAfterSet(cache, cache', k, v, FALSE)
    /\ UNCHANGED <<hits, misses, now, pending, getCalls,
                   sweeping, us>>

Has(k) ==
    /\ LET r == has(cache, now, k)
       IN  /\ cache' = r.cache
           /\ last' = [NoLast EXCEPT !.op = "has", !.key = k, !.ok = r.ret,
                                     !.live = Live(cache, now, k),
                                     !.gone = Gone(cache, r.cache)]
    /\ UNCHANGED <<hits, misses, now, pending, getCalls, written,
                   served,
                   sweeping, us>>

Delete(k) ==
    /\ LET r == delete(cache, k)
       IN  /\ cache' = r.cache
           /\ last' = [NoLast EXCEPT !.op = "delete", !.key = k,
                                     !.ok = r.ret,
                                     !.live = Live(cache, now, k),
                                     !.gone = Gone(cache, r.cache)]
    /\ written' = [written EXCEPT ![k] = NoWrite]
    /\ served' = [served EXCEPT ![k] = NoServe]
    /\ UNCHANGED <<hits, misses, now, pending, getCalls,
                   sweeping, us>>

Clear ==
    /\ LET r == clear(cache, hits, misses)
       IN  /\ cache' = r.cache
           /\ hits' = r.hits
           /\ misses' = r.misses
    /\ last' = [NoLast EXCEPT !.op = "clear", !.ok = TRUE,
                              !.n = hits + misses, !.gone = Len(cache)]
    /\ getCalls' = 0
    /\ written' = [k \in Keys |-> NoWrite]
    /\ served' = [k \in Keys |-> NoServe]
    /\ UNCHANGED <<now, pending,
                   sweeping, us>>

Cleanup ==
    /\ LET r == cleanup(cache, now)
       IN  /\ cache' = r.cache
           /\ last' = [NoLast EXCEPT !.op = "cleanup", !.n = r.ret,
                                     !.gone = Gone(cache, r.cache)]
    /\ UNCHANGED <<hits, misses, now, pending, getCalls, written,
                   served,
                   sweeping, us>>

GetStats ==
    /\ last' = [NoLast EXCEPT !.op = "stats",
                              !.stats = getStats(cache, hits, misses)]
    /\ UNCHANGED <<cache, hits, misses, now, pending, getCalls, written,
                   served,
                   sweeping, us>>

SweepIdle ==
    /\ sweeping
    /\ last' = [NoLast EXCEPT !.op = "sweep"]
    /\ UNCHANGED <<cache, hits, misses, now, pending, getCalls, written,
                   served, sweeping, us>>

\* The setInterval callback: this.cleanup().subscribe().  The timer's period
\* is not tied to the clock of the model: a sweep can fire at any instant.
Sweep ==
    /\ sweeping
    /\ cache' = cleanup(cache, now).cache
    /\ last' = [NoLast EXCEPT !.op = "sweep", !.gone = Gone(cache, cache')]
    /\ UNCHANGED <<hits, misses, now, pending, getCalls, written, served,
                   sweeping, us>>

Tick ==
    /\ now < MaxTime
    /\ now' = now + 1
    /\ last' = [NoLast EXCEPT !.op = "tick"]
    /\ written' = Unelapsed(written, NoWrite, now')
    /\ served' = Unelapsed(served, NoServe, now')
    /\ UNCHANGED <<cache, hits, misses, pending, getCalls,
                   sweeping, us>>

\* cachingInterceptor(req, next) up to the point where it returns
Intercept(method, url) ==
    IF ~Cacheable(method)
    THEN /\ PendingTotalOf(pending) < MaxPending
         /\ pending' = [pending EXCEPT ![<<method, url>>] = @ + 1]
         /\ last' = [NoLast EXCEPT !.op = "intercept", !.key = url,
                                   !.method = method, !.called = 1]
         /\ UNCHANGED <<cache, hits, misses, now, getCalls,
                        written, served,
                   sweeping, us>>
    ELSE /\ hits + misses < MaxGets
         /\ LET r == get(cache, hits, misses, now, url)
            IN  /\ cache' = r.cache
                /\ hits' = r.hits
                /\ misses' = r.misses
                /\ IF Truthy(r.ret)
                   THEN /\ pending' = pending
                        /\ last' = [NoLast EXCEPT !.op = "intercept",
                                       !.key = url, !.method = method,
                                       !.val = r.ret, !.gets = 1, !.ok = TRUE,
                                       !.live = Live(cache, now, url),
                                       !.gone = Gone(cache, r.cache)]
                   ELSE /\ PendingTotalOf(pending) < MaxPending
                        /\ pending' = [pending EXCEPT ![<<method, url>>] = @ + 1]
                        /\ last' = [NoLast EXCEPT !.op = "intercept",
                                       !.key = url, !.method = method,
                                       !.gets = 1, !.called = 1,
                                       !.live = Live(cache, now, url),
                                       !.gone = Gone(cache, r.cache)]
         /\ getCalls' = getCalls + 1
         /\ UNCHANGED <<now, written, served,
                   sweeping, us>>

\* The continuation's stream emits an event.  A completed response is its
\* last event.  Only a GET stream passes through the tap.
Emit(method, url, ev) ==
    /\ pending[<<method, url>>] > 0
    /\ pending' = IF IsHttpResponse(ev)
                  THEN [pending EXCEPT ![<<method, url>>] = @ - 1]
                  ELSE pending
    /\ cache' = IF Cacheable(method) THEN tapStore(cache, now, url, ev) ELSE cache
    /\ last' = [NoLast EXCEPT !.op = "event", !.key = url, !.method = method,
                              !.src = ev, !.val = ev,
                              !.live = Live(cache, now, url),
                              !.gone = Gone(cache, cache')]
    /\ IF Cacheable(method) /\ IsHttpResponse(ev)
       THEN /\ written' = WrittenAfterSet(cache, cache', url, ev, <<>>)
            /\ served' = ServedAfterSet(cache, cache', url, ev, TRUE)
       ELSE UNCHANGED <<written, served>>
    /\ UNCHANGED <<hits, misses, now, getCalls,
                   sweeping, us>>

\* The continuation's stream fails; tap passes the error on
Fail(method, url, err) ==
    /\ pending[<<method, url>>] > 0
    /\ pending' = [pending EXCEPT ![<<method, url>>] = @ - 1]
    /\ cache' = IF Cacheable(method) THEN tapError(cache, now, url, err)
                 ELSE cache
    /\ last' = [NoLast EXCEPT !.op = "error", !.key = url, !.method = method,
                              !.src = err, !.val = err,
                              !.live = Live(cache, now, url)]
    /\ UNCHANGED <<hits, misses, now, getCalls, written, served,
                   sweeping, us>>

GenerateKey(url, params) ==
    /\ last' = [NoLast EXCEPT !.op = "key", !.key = url, !.params = params,
                              !.val = generateKey(url, params)]
    /\ UNCHANGED <<cache, hits, misses, now, pending, getCalls, written,
                   served, sweeping, us>>

\* A caller subscribes to the stream getUsers, postUser or getUserById
\* returned: the request is sent
Subscribe(op, config) ==
    /\ us.phase \in {"idle", "done"}
    /\ us' = [NoStream EXCEPT !.op = op, !.count = retryAttempts(config),
                              !.method = RequestMethod(op),
                              !.tries = 1, !.phase = "request"]
    /\ UNCHANGED <<cache, hits, misses, now, pending, last, getCalls,
                   written, served, sweeping>>

\* The request is answered with a body: map transforms it, or throws
Respond(body) ==
    /\ us.phase = "request"
    /\ LET v == mapResponse(us.op, body)
           u == [us EXCEPT !.body = body]
       IN  us' = IF v = THROWN
                 THEN OnError(u, THROWN)
                 ELSE Deliver(u, << [kind |-> "next", val |-> v],
                                    [kind |-> "complete", val |-> NULL] >>)
    /\ UNCHANGED <<cache, hits, misses, now, pending, last, getCalls,
                   written, served, sweeping>>

\* The request fails
RequestFails(err) ==
    /\ us.phase = "request"
    /\ us' = OnError(us, err)
    /\ UNCHANGED <<cache, hits, misses, now, pending, last, getCalls,
                   written, served, sweeping>>

\* The delay of retry has passed: it subscribes to its source again
Resubscribe ==
    /\ us.phase = "delay"
    /\ us' = [us EXCEPT !.tries = @ + 1, !.phase = "request",
                        !.body = "none"]
    /\ UNCHANGED <<cache, hits, misses, now, pending, last, getCalls,
                   written, served, sweeping>>

\* ngOnDestroy: the timer is cleared and the Map emptied; the counters stay
NgOnDestroy ==
    /\ sweeping
    /\ LET r == ngOnDestroy(cache, hits, misses)
       IN  /\ cache' = r.cache
           /\ hits' = r.hits
           /\ misses' = r.misses
    /\ sweeping' = FALSE
    /\ last' = [NoLast EXCEPT !.op = "destroy", !.gone = Len(cache)]
    /\ written' = [k \in Keys |-> NoWrite]
    /\ served' = [k \in Keys |-> NoServe]
    /\ UNCHANGED <<now, pending, getCalls, us>>

\* The store alone: every operation of CacheService and the clock
NextStore ==
    \/ \E k \in Keys : Get(k)
    \/ \E in \in SetInputs : Set(in[1], in[2], in[3])
    \/ \E k \in Keys : Has(k)
    \/ \E k \in Keys : Delete(k)
    \/ Clear
    \/ Cleanup
    \/ GetStats
    \/ Sweep
    \/ Tick

Spec == Init /\ [][NextStore]_vars

\* The interceptor in front of the store, with the store's other callers
NextHttp ==
    \/ \E m \in Methods, u \in Urls : Intercept(m, u)
    \/ \E m \in Methods, u \in Urls, ev \in ProgressEvents \cup Responses :
          Emit(m, u, ev)
    \/ \E m \in Methods, u \in Urls, err \in Errors : Fail(m, u, err)
    \/ \E k \in Urls : Get(k)
    \/ \E in \in HttpSetInputs : Set(in[1], in[2], in[3])
    \/ \E k \in Urls : Delete(k)
    \/ Clear
    \/ Sweep
    \/ Tick

SpecHttp == Init /\ [][NextHttp]_vars

\* The service over its whole life, from construction to ngOnDestroy and the
\* calls made on it afterwards.  setInterval keeps its callback scheduled
\* until clearInterval: as long as a sweep has something to remove it is
\* eventually run, which is weak fairness of Sweep.
NextLife ==
    \/ \E k \in Urls : Get(k)
    \/ \E in \in HttpSetInputs : Set(in[1], in[2], in[3])
    \/ \E k \in Urls : Has(k)
    \/ \E k \in Urls : Delete(k)
    \/ Clear
    \/ Cleanup
    \/ GetStats
    \/ Sweep
    \/ Tick
    \/ NgOnDestroy

SpecLife == Init /\ [][NextLife]_vars /\ WF_vars(Sweep)

\* generateKey alone, which reads and writes no state of the service
NextKey == \E u \in KeyBases, p \in ParamObjects : GenerateKey(u, p)

SpecKey == Init /\ [][NextKey]_vars

\* getStats over a range of counter values and store contents
NextStats ==
    \/ GetStats
    \/ \E in \in HttpSetInputs : Set(in[1], in[2], in[3])
    \/ Tick

SpecStats == InitStats /\ [][NextStats]_vars

\* One subscriber at a time to a stream of UserService
NextUser ==
    \/ \E op \in UserOps, config \in RetryConfigs : Subscribe(op, config)
    \/ \E body \in Bodies : Respond(body)
    \/ \E err \in HttpErrors : RequestFails(err)
    \/ Resubscribe

SpecUser == Init /\ [][NextUser]_vars

---------------------------------------------------------------------------
(* Claims *)

\* The first entry, in iteration order, among those created earliest
FirstOldest(c) ==
    LET i == CHOOSE a \in 1..Len(c) :
                 /\ \A b \in 1..Len(c) : c[a].createdAt <= c[b].createdAt
                 /\ \A b \in 1..(a - 1) : c[b].createdAt > c[a].createdAt
    IN  c[i].key

\* A step is a cache.service call set(k, ...)
IsStore(l) ==
    \/ l.op = "set"
    \/ l.op = "event" /\ l.method = "GET" /\ IsHttpResponse(l.src)

\* C1: right after a set call completes, the store holds at most maxSize
\* entries, whatever the keys (the empty string included).
C1_SizeBoundAfterSet == last.op = "set" => Len(cache) <= maxSize

\* C2: a get(k) made after set(k, v), before the TTL the set asked for has
\* elapsed and with no delete(k), clear, overwrite or eviction of k in
\* between, returns exactly v.
C2_RoundTrip ==
    (last.op = "get" /\ written[last.key].on /\ now < written[last.key].exp)
        => last.val = written[last.key].val

C2_Witness ==
    /\ last.op = "get"
    /\ written[last.key].on
    /\ last.val = written[last.key].val
    /\ now > 0

\* C3: a get(k) or has(k) made when now > expiry of k's entry returns
\* null / false and removes the entry; an absent key becomes present again
\* only by a set of that key.
C3_Expiry ==
    [][/\ (/\ last'.op \in {"get", "has"}
           /\ MapHas(cache, last'.key)
           /\ now > MapGet(cache, last'.key).expiry)
          => (/\ last'.val = NULL
              /\ last'.ok = FALSE
              /\ ~MapHas(cache', last'.key))
       /\ \A k \in Keys :
            (~MapHas(cache, k) /\ MapHas(cache', k))
                => (IsStore(last') /\ last'.key = k)]_vars

C3_Witness ==
    /\ last.op = "get"
    /\ last.gone = 1
    /\ last.val = NULL
    /\ ~MapHas(cache, last.key)

\* C4: hits + misses equals the number of get calls made since the last
\* clear (or construction), the interceptor's get calls included.
C4_CounterAccounting == hits + misses = getCalls

C4_Witness ==
    /\ last.op = "intercept"
    /\ last.gets = 1
    /\ hits = 1
    /\ misses = 1
    /\ getCalls = 2

\* C5: a set called with the store holding maxSize entries or more removes
\* exactly one entry before inserting: the first, in iteration order, of
\* those with the minimum creation timestamp.
C5_EvictionChoice ==
    [][(last'.op = "set" /\ Len(cache) >= maxSize)
          => cache' = MapSet(MapDelete(cache, FirstOldest(cache)),
                             last'.key, MapGet(cache', last'.key))]_vars

C7_PassThrough ==
    [][(last'.op \in {"intercept", "event", "error"} /\ last'.method # "GET")
          => (/\ cache' = cache
              /\ hits' = hits
              /\ misses' = misses
              /\ last'.gets = 0
              /\ last'.val = last'.src
              /\ last'.op = "intercept"
                   => (/\ last'.called = 1
                       /\ pending'[<<last'.method, last'.key>>]
                            = pending[<<last'.method, last'.key>>] + 1))]_vars

C7_Witness ==
    /\ last.op = "event"
    /\ last.method = "POST"
    /\ IsHttpResponse(last.src)
    /\ ~MapHas(cache, last.key)
    /\ hits + misses = 0

\* C8: when the continuation of a GET fails, the subscriber receives that
\* error and the store is unchanged; a GET for a key with no live entry
\* counts a miss and invokes the continuation.
C8_ErrorsNotCached ==
    [][/\ (last'.op = "error" /\ last'.method = "GET")
          => (/\ last'.val = last'.src
              /\ cache' = cache
              /\ hits' = hits
              /\ misses' = misses)
       /\ (last'.op = "intercept" /\ last'.method = "GET" /\ ~last'.live)
          => (/\ last'.called = 1
              /\ misses' = misses + 1
              /\ ~MapHas(cache', last'.key))]_vars

C8_Witness ==
    /\ last.op = "error"
    /\ last.method = "GET"
    /\ last.val \in Errors
    /\ ~MapHas(cache, last.key)
    /\ misses > 0

\* C9: on a GET miss, an event of the continuation stores an entry under the
\* request's key exactly when it is a completed response; the entry holds
\* that response with expiry = now + defaultTTL; any other event leaves the
\* store as it was; every event reaches the subscriber unchanged.
C9_StoreCondition ==
    [][(last'.op = "event" /\ last'.method = "GET")
          => (/\ last'.val = last'.src
              /\ IsHttpResponse(last'.src)
                   => (/\ MapHas(cache', last'.key)
                       /\ MapGet(cache', last'.key)
                            = Entry(last'.key, last'.src, now + defaultTTL, now))
              /\ ~IsHttpResponse(last'.src) => cache' = cache)]_vars

C9_Witness ==
    /\ last.op = "event"
    /\ last.method = "GET"
    /\ IsHttpResponse(last.src)
    /\ MapHas(cache, last.key)
    /\ MapGet(cache, last.key).expiry = now + defaultTTL
    /\ ~last.live

\* C10: a get call adds 1 to hits and leaves misses when the key has an
\* unexpired entry, and adds 1 to misses and leaves hits otherwise; it
\* changes no entry, except that it deletes the key's own expired entry.
C10_GetCounterEffect ==
    [][last'.op = "get"
          => IF Live(cache, now, last'.key)
             THEN /\ hits' = hits + 1
                  /\ misses' = misses
                  /\ cache' = cache
                  /\ last'.val = MapGet(cache, last'.key).value
             ELSE /\ misses' = misses + 1
                  /\ hits' = hits
                  /\ cache' = MapDelete(cache, last'.key)
                  /\ last'.val = NULL]_vars

C10_Witness ==
    /\ last.op = "get"
    /\ last.gone = 1
    /\ hits = 1
    /\ misses = 1

\* C11: the entry a set call stores has expiry = now + ttl when options.ttl
\* is supplied, 0 included, and now + defaultTTL when it is not.
C11_PerCallTtl ==
    last.op = "set"
        => (/\ MapHas(cache, last.key)
            /\ MapGet(cache, last.key).createdAt = now
            /\ MapGet(cache, last.key).expiry = now + AskedTtl(last.opts))

\* C12: cleanup removes every entry whose expiry is at or before the current
\* time, keeps every entry whose expiry is after it, returns the number of
\* entries it removed, and leaves hits and misses unchanged.
C12_Cleanup ==
    [][last'.op = "cleanup" =>
        /\ \A k \in Keys :
               MapHas(cache', k) <=>
                   (MapHas(cache, k) /\ MapGet(cache, k).expiry > now)
        /\ \A k \in Keys :
               MapHas(cache', k) => MapGet(cache', k) = MapGet(cache, k)
        /\ last'.n = Cardinality({k \in Keys :
                                     MapHas(cache, k) /\ ~MapHas(cache', k)})
        /\ hits' = hits
        /\ misses' = misses]_vars

\* Three entries stored, two of them expired: cleanup removed 2, 1 remains
C12_Witness == last.op = "cleanup" /\ last.n = 2 /\ Len(cache) = 1

\* C13: has(k) returns true exactly when an entry for k is stored and not
\* expired (now <= expiry); when the entry is stored but expired, has deletes
\* it and returns false; has changes neither counter nor any other key's
\* entry.
C13_Has ==
    [][last'.op = "has" =>
        LET k == last'.key
        IN  /\ last'.ok <=>
                   (MapHas(cache, k) /\ now <= MapGet(cache, k).expiry)
            /\ (MapHas(cache, k) /\ now > MapGet(cache, k).expiry)
                   => (~MapHas(cache', k) /\ ~last'.ok)
            /\ last'.ok => cache' = cache
            /\ \A j \in Keys \ {k} :
                   /\ MapHas(cache', j) <=> MapHas(cache, j)
                   /\ MapHas(cache, j) => MapGet(cache', j) = MapGet(cache, j)
            /\ hits' = hits
            /\ misses' = misses]_vars

\* has found its key stored but expired, removed it and answered false,
\* while another entry stayed
C13_Witness ==
    last.op = "has" /\ last.gone = 1 /\ ~last.ok /\ Len(cache) >= 1

\* C14: after clear the store holds no entries and hits = misses = 0, so
\* getStats reports size 0 and hitRate 0; a get issued right after clear
\* is a miss.
C14_Clear ==
    [][/\ last'.op = "clear" =>
            /\ cache' = <<>>
            /\ hits' = 0
            /\ misses' = 0
            /\ getStats(cache', hits', misses').size = 0
            /\ getStats(cache', hits', misses').hitRate = 0
       /\ (last.op = "clear" /\ last'.op = "get") =>
            /\ last'.val = NULL
            /\ hits' = 0
            /\ misses' = 1]_vars

\* clear ran on a store that held entries and had counted get calls
C14_Witness == last.op = "clear" /\ last.gone >= 1 /\ last.n >= 1

\* C15: delete(k) returns true exactly when an entry for k was stored,
\* expired or not; afterwards k is absent, every other entry is unchanged
\* and so are hits and misses.
C15_Delete ==
    [][last'.op = "delete" =>
        LET k == last'.key
        IN  /\ last'.ok <=> MapHas(cache, k)
            /\ ~MapHas(cache', k)
            /\ \A j \in Keys \ {k} :
                   /\ MapHas(cache', j) <=> MapHas(cache, j)
                   /\ MapHas(cache, j) => MapGet(cache', j) = MapGet(cache, j)
            /\ hits' = hits
            /\ misses' = misses]_vars

\* delete removed an expired entry and answered true, another entry stayed
C15_Witness ==
    /\ last.op = "delete" /\ last.ok /\ ~last.live /\ last.gone = 1
    /\ Len(cache) >= 1

\* C16: has, set, delete, cleanup, getStats, the periodic sweep and
\* ngOnDestroy leave hits and misses unchanged; a counter decreases only in
\* a clear step, which sets both to zero.
C16_CounterFrame ==
    [][/\ last'.op \in {"has", "set", "delete", "cleanup", "stats", "sweep",
                        "destroy", "tick"}
            => (hits' = hits /\ misses' = misses)
       /\ (hits' < hits \/ misses' < misses)
            => (last'.op = "clear" /\ hits' = 0 /\ misses' = 0)]_vars

\* ngOnDestroy emptied a store whose counters were both positive, and they
\* still are
C16_Witness ==
    last.op = "destroy" /\ last.gone >= 1 /\ hits >= 1 /\ misses >= 1

Reorderings(p) ==
    {[i \in 1..Len(p) |-> p[f[i]]] :
        f \in {g \in [1..Len(p) -> 1..Len(p)] : Injective(g)}}

\* C17: generateKey gives the same key for the same parameters whatever the
\* order they are given in, and gives the base unchanged when there are no
\* parameters.
C17_KeyOrderIndependent ==
    last.op = "key" =>
        /\ \A q \in Reorderings(last.params) :
               generateKey(last.key, q) = last.val
        /\ last.params = <<>> => last.val = last.key

\* generateKey("/a", {b: "1", a: 1}) gave the key with a before b
C17_Witness ==
    /\ last.op = "key"
    /\ last.params = << <<"b", <<"string", "1">> >>, <<"a", <<"number", "1">> >> >>
    /\ last.val = "/a?a=1&b=\"1\""

Abs(x) == IF x < 0 THEN -x ELSE x

\* C18: getStats reports the current hits and misses, size = the number of
\* entries in the store, expired ones included, and hitRate = 0 when
\* hits + misses = 0, otherwise hits / (hits + misses) * 100 rounded to two
\* decimals, between 0 and 100; getStats changes nothing.
C18_GetStats ==
    [][last'.op = "stats" =>
        LET st == last'.stats
            total == hits + misses
        IN  /\ st.hits = hits
            /\ st.misses = misses
            /\ st.size = Len(cache)
            /\ total = 0 => st.hitRate = 0
            /\ total > 0 => 2 * Abs(st.hitRate * total - hits * 10000) <= total
            /\ 0 <= st.hitRate /\ st.hitRate <= 10000
            /\ UNCHANGED <<cache, hits, misses>>]_vars

\* getStats with 2 hits in 3 get calls reported 66.67, and counted an
\* expired entry in size
C18_Witness ==
    /\ last.op = "stats"
    /\ last.stats.hits = 2 /\ last.stats.misses = 1
    /\ last.stats.hitRate = 6667
    /\ last.stats.size = Len(cache)
    /\ \E i \in 1..Len(cache) : cache[i].expiry < now

\* An entry for k is stored and its expiry has passed
Overdue(k) == MapHas(cache, k) /\ MapGet(cache, k).expiry < now

\* C19: while the service is not destroyed the timer's sweep runs cleanup
\* without any caller's action, so every stored entry whose expiry has
\* passed is eventually removed; ngOnDestroy leaves the store empty and
\* after it no sweep fires.
C19_SweepLiveness ==
    /\ \A k \in Keys : (sweeping /\ Overdue(k)) ~> ~Overdue(k)
    /\ [][last'.op = "destroy" => (cache' = <<>> /\ ~sweeping')]_vars
    /\ [][~sweeping => (last'.op # "sweep" /\ ~sweeping')]_vars

\* The sweep removed an entry that no caller had touched since it expired
C19_Witness ==
    last.op = "sweep" /\ last.gone >= 1 /\ sweeping /\ hits + misses = 0

\* C20: the streams of getUsers, getUserById and postUser never deliver an
\* error; a failing attempt is retried up to retryAttempts times, so at
\* most 1 + retryAttempts attempts are made; when every attempt has failed
\* the subscriber receives the fallback, [] or null, exactly once and the
\* stream completes.
C20_Fallback ==
    /\ ~us.errored
    /\ us.tries <= 1 + us.count
    /\ us.phase # "done" => (us.out = <<>> /\ ~us.completed)
    /\ (us.phase = "done" /\ us.failed = us.tries) =>
           /\ us.tries = 1 + us.count
           /\ us.out = <<Fallback(us.op)>>
           /\ us.completed

\* getUsers without a config: four attempts failed, [] was delivered
C20_Witness ==
    /\ us.op = "getUsers" /\ us.phase = "done"
    /\ us.count = defaultRetryAttempts
    /\ us.failed = 1 + defaultRetryAttempts
    /\ us.out = <<EmptyArray>>

C22_BoundaryConsistency ==
    [][last'.op \in {"cleanup", "sweep"} =>
        \A k \in Keys : has(cache, now, k).ret => MapHas(cache', k)]_vars

\* C23: set removes an entry other than the one it writes only when the
\* insertion would otherwise take the entry count above maxSize, that is
\* when its key is new and the store already holds maxSize entries; a set
\* of a stored key on a store of exactly maxSize entries keeps every other
\* key and the size.
C23_EvictOnlyWhenNeeded ==
    [][last'.op = "set" =>
        /\ \A j \in Keys \ {last'.key} :
               (MapHas(cache, j) /\ ~MapHas(cache', j))
                   => (~MapHas(cache, last'.key) /\ Len(cache) >= maxSize)
        /\ (MapHas(cache, last'.key) /\ Len(cache) = maxSize)
               => Len(cache') = maxSize]_vars

\* C24: in-flight GETs are not coalesced.  A GET intercept invokes the
\* continuation exactly when it finds no live entry for its key, whether or
\* not an earlier request for the key is still in flight, and then counts a
\* miss; so the continuation invocations for a key are as many as the GET
\* intercepts that found no live entry.  Each completed response delivered
\* for a key becomes the stored entry, so the one delivered last stays.
C24_NoCoalescing ==
    [][/\ (last'.op = "intercept" /\ last'.method = "GET") =>
            LET k == last'.key
            IN  /\ last'.called = 1 <=> ~Live(cache, now, k)
                /\ ~Live(cache, now, k) =>
                       /\ misses' = misses + 1
                       /\ pending'[<<"GET", k>>] = pending[<<"GET", k>>] + 1
       /\ (last'.op = "event" /\ last'.method = "GET"
               /\ IsHttpResponse(last'.src)) =>
            /\ MapHas(cache', last'.key)
            /\ MapGet(cache', last'.key).value = last'.src]_vars

\* C25: a GET request in flight stores its completed response when it is
\* delivered, whatever happened to the store since the intercept (clear,
\* delete, a sweep): right after the delivery the store holds an entry for
\* the key, so its size is at least 1, with the delivered response as value
\* and with creation time and expiry computed from the time of delivery.
C25_LateStore ==
    [][(last'.op = "event" /\ last'.method = "GET"
            /\ IsHttpResponse(last'.src)) =>
        /\ Len(cache') >= 1
        /\ MapHas(cache', last'.key)
        /\ MapGet(cache', last'.key) =
               Entry(last'.key, last'.src, now + defaultTTL, now)]_vars

\* A response was delivered and stored after time had passed and after a
\* clear had run while the request was in flight: the miss its intercept
\* had counted is gone
C25_Witness ==
    /\ last.op = "event" /\ last.method = "GET" /\ IsHttpResponse(last.src)
    /\ now >= 1
    /\ hits = 0 /\ misses = 0
    /\ MapHas(cache, last.key)
    /\ MapGet(cache, last.key).createdAt = now

===========================================================================
